---- MODULE Spec2Model ----
(***************************************************************************)
(* A model of esdl.audio: one AudioDevice object over the native (SDL)     *)
(* audio layer, the callback bridge _sdl_audio_callback run by the driver  *)
(* thread, and a BasicMixer installed on the device.                       *)
(*                                                                         *)
(* Two threads of control:                                                 *)
(*   - the application thread (main_pc): the constructor, close(),         *)
(*     __del__, pause(), unpause(), assignment to device.callback, the     *)
(*     Mixer constructor and BasicMixer.play(), the last two at statement  *)
(*     granularity;                                                        *)
(*   - the callback thread (cb_pc): one invocation of the bridge at a      *)
(*     time, started by the driver (cb_src = "driver") or by a call of     *)
(*     lib._sdl_audio_callback from the application ("simulated").         *)
(*                                                                         *)
(* Frames are modelled with one channel: a stream or a chunk is a sequence *)
(* of sample values.                                                       *)
(***************************************************************************)
EXTENDS Integers, Sequences, FiniteSets, TLC

\* ------------------------------------------------------------------ bounds
MaxSamples == 2       \* largest frame batch size the native layer obtains
MaxSoundLen == 3      \* longest sound passed to play()
MaxSounds == 2        \* play() calls that are accepted
MaxOnStream == 2      \* calls of on_stream

\* The id SDL_OpenAudioDevice returns on success (SDL: always >= 2).
DevId == 2

\* The frame batch sizes the native layer may obtain: one frame, or the largest.
SampleCounts == {1, MaxSamples}

\* Values the stream holds on entry (zeroed or stale), and the silence values
\* the native layer may report.
StreamFill == {0, 9}
Silences == {0, 8}

\* device.callback holds "default" (the silence filler of line 100),
\* "on_stream" (BasicMixer.on_stream, line 126) or a callback of the
\* application, "cbA" or "cbB". The callback the application may pass to the
\* constructor ("none": no callback), and the one it may install later:
CallbackArgs == {"none", "cbA"}
NewCallbacks == {"cbB"}

VARIABLES
    dev,            \* the AudioDevice object: "none", "alive", "failed", "destroyed"
    handle,         \* self.__handle: "none", "live", "freed"
    device_id,      \* self.device_id
    obtained,       \* the attributes of lines 93-98 (set: they are assigned)
    callback,       \* self.callback ("unset" until line 101)
    first_callback, \* history: the callback the constructor installed
    native,         \* the native layer: [open, paused, userdata, spec, closes, error]
    mixer,          \* the BasicMixer object: "none", "constructing", "ready"
    mixer_device,   \* mixer.device: "unset", "dev", "stream"
    play_buffers,   \* mixer.play_buffers: sounds, each its pending chunks, last chunk first
    pb_set,         \* line 136 has run
    main_pc,        \* position of the application thread
    play_array,     \* play(): the local `array`
    play_chunks,    \* play(): the local `chunks`
    main_err,       \* the error the application thread's last operation raised
    reclosed,       \* history: close() has been called on the device after its first close()
    pause_after_close, \* history: pause() or unpause() has been called on the closed device
    cb_pc,          \* position of the callback thread
    cb_src,         \* who started the current (or last) invocation
    stream,         \* the frame buffer of the current (or last) invocation
    inv,            \* history of the current (or last) invocation
    os_done,        \* on_stream calls that have ended
    accepted,       \* history: the sounds play() appended, in order
    accept_phase,   \* history: where on_stream stood at the latest append
    crashed,        \* the process died (undefined behaviour in the bridge)
    codec           \* the format codec at work: [host, pc, dtype, format, err, decoded]

vars == <<dev, handle, device_id, obtained, callback, first_callback, native, mixer,
          mixer_device, play_buffers, pb_set, main_pc, play_array, play_chunks,
          main_err, reclosed, pause_after_close, cb_pc, cb_src, stream, inv, os_done,
          accepted, accept_phase, crashed, codec>>

\* The device, its mixer and the bridge: everything but the codec at work.
audioVars == <<dev, handle, device_id, obtained, callback, first_callback, native, mixer,
               mixer_device, play_buffers, pb_set, main_pc, play_array, play_chunks,
               main_err, reclosed, pause_after_close, cb_pc, cb_src, stream, inv, os_done,
               accepted, accept_phase, crashed>>

devVars == <<dev, handle, device_id, obtained, callback, first_callback, native>>
mixVars == <<mixer, mixer_device, play_buffers, pb_set>>
playVars == <<play_array, play_chunks, accepted, accept_phase>>
histVars == <<reclosed, pause_after_close>>
cbVars == <<cb_pc, cb_src, stream, inv, os_done>>

NoError == [type |-> "none", msg |-> ""]
Error(t, m) == [type |-> t, msg |-> m]

\* ----------------------------------------------------------- pure helpers
Min(a, b) == IF a < b THEN a ELSE b

RECURSIVE SumSeq(_)
SumSeq(s) == IF s = <<>> THEN 0 ELSE Head(s) + SumSeq(Tail(s))

Reverse(s) == [i \in 1..Len(s) |-> s[Len(s) + 1 - i]]

\* The sounds handed to play(): ramps 1, 2, ... of 0..MaxSoundLen frames, so
\* that every frame of a sound is told from its neighbours.
Sounds == {[i \in 1..n |-> i] : n \in 0..MaxSoundLen}

\* range(0, len(array), samples)[1:]: the split points samples, 2*samples, ...
SplitPoints(n, b) == {k \in 1..n : k % b = 0 /\ k < n}

\* np.split(array, points): the pieces between consecutive split points; one
\* piece when there is no point.
NumPieces(n, b) == Cardinality(SplitPoints(n, b)) + 1
Piece(array, b, k) == SubSeq(array, (k - 1) * b + 1, Min(k * b, Len(array)))
np_split(array, b) == [k \in 1..NumPieces(Len(array), b) |-> Piece(array, b, k)]

\* line 143: the pieces reversed, so that list.pop() yields the earliest first.
play_split(array, b) == Reverse(np_split(array, b))

\* stream[...] = value
Fill(s, v) == [i \in 1..Len(s) |-> v]

\* ------------------------------------------------------------ format codec
\* lines 17-20: the fields of an SDL_AudioFormat bitfield.
SDL_AUDIO_MASK_BITSIZE == 255
SDL_AUDIO_MASK_DATATYPE == 256
SDL_AUDIO_MASK_ENDIAN == 4096
SDL_AUDIO_MASK_SIGNED == 32768

\* a & b and a | b on naturals.
RECURSIVE BitAnd(_, _)
BitAnd(a, b) ==
    IF a = 0 \/ b = 0 THEN 0
    ELSE (IF a % 2 = 1 /\ b % 2 = 1 THEN 1 ELSE 0) + 2 * BitAnd(a \div 2, b \div 2)

RECURSIVE BitOr(_, _)
BitOr(a, b) ==
    IF a = 0 THEN b
    ELSE IF b = 0 THEN a
    ELSE (IF a % 2 = 1 \/ b % 2 = 1 THEN 1 ELSE 0) + 2 * BitOr(a \div 2, b \div 2)

\* mask * flag, flag a bool.
Times(mask, flag) == IF flag THEN mask ELSE 0

\* A numpy dtype, as far as the codec looks at it: fields (TRUE for a
\* structured dtype), kind (the second character of dt.str), itemsize, and
\* byteorder, which numpy keeps normalised: "|" for a one-byte or unordered
\* type, "=" for the host's order, "<" or ">" for the other order.
DType(fields, kind, itemsize, byteorder) ==
    [fields |-> fields, kind |-> kind, itemsize |-> itemsize, byteorder |-> byteorder]

\* sys.byteorder as a dtype character.
HostChar(host) == IF host = "little" THEN "<" ELSE ">"

\* The item sizes numpy has for a kind (x86-64 Linux: float128 exists).
NumpySizes(kind) ==
    CASE kind \in {"u", "i"} -> {1, 2, 4, 8}
      [] kind = "f" -> {2, 4, 8, 16}
      [] OTHER -> {}

\* np.dtype(f"{byteorder}{kind}{bytesize}") on a host: TypeError for a size
\* numpy does not have, else the dtype with its byte order normalised.
np_dtype(byteorder, kind, bytesize, host) ==
    IF bytesize \notin NumpySizes(kind)
    THEN [err |-> Error("TypeError", "data type not understood"),
          value |-> DType(FALSE, "", 0, "")]
    ELSE [err |-> NoError,
          value |-> DType(FALSE, kind, bytesize,
                          IF bytesize = 1 THEN "|"
                          ELSE IF byteorder = HostChar(host) THEN "=" ELSE byteorder)]

\* _get_format, lines 23-41: the bitfield of a dtype, or AssertionError.
get_format(dt, host) ==
    LET bitsize == dt.itemsize * 8
        is_signed == dt.kind # "u"
        is_float == dt.kind = "f"
        byteorder == IF dt.byteorder = "=" THEN HostChar(host) ELSE dt.byteorder
    IN IF dt.fields THEN [err |-> Error("AssertionError", "fields"), value |-> 0]
       ELSE IF ~(0 < bitsize /\ bitsize <= SDL_AUDIO_MASK_BITSIZE)
       THEN [err |-> Error("AssertionError", "bitsize"), value |-> 0]
       ELSE IF dt.kind \notin {"u", "i", "f"}
       THEN [err |-> Error("AssertionError", "kind"), value |-> 0]
       ELSE [err |-> NoError,
             value |-> BitOr(BitOr(BitOr(bitsize,
                                         Times(SDL_AUDIO_MASK_DATATYPE, is_float)),
                                   Times(SDL_AUDIO_MASK_ENDIAN, byteorder = ">")),
                             Times(SDL_AUDIO_MASK_SIGNED, is_signed))]

\* lines 50-55: the kind of a bitfield, the float flag looked at first.
\* (variant: the signed flag looked at first)
format_kind_signed_first(format) ==
    IF BitAnd(format, SDL_AUDIO_MASK_SIGNED) # 0 THEN "i"
    ELSE IF BitAnd(format, SDL_AUDIO_MASK_DATATYPE) # 0 THEN "f"
    ELSE "u"
format_kind(format) ==
    IF BitAnd(format, SDL_AUDIO_MASK_DATATYPE) # 0 THEN "f"
    ELSE IF BitAnd(format, SDL_AUDIO_MASK_SIGNED) # 0 THEN "i"
    ELSE "u"

\* line 49: the byte order of a bitfield.
\* (variant: always little-endian)
format_byteorder_little(format) == "<"
format_byteorder(format) ==
    IF BitAnd(format, SDL_AUDIO_MASK_ENDIAN) # 0 THEN ">" ELSE "<"

\* _dtype_from_format, lines 44-56: the dtype of a bitfield, AssertionError for
\* a width that is no multiple of 8, or the TypeError of np.dtype.
dtype_from_format(format, host) ==
    LET bitsize == BitAnd(format, SDL_AUDIO_MASK_BITSIZE)
        bytesize == bitsize \div 8
    IN IF bitsize % 8 # 0
       THEN [err |-> Error("AssertionError", "bitsize % 8"), value |-> DType(FALSE, "", 0, "")]
       ELSE np_dtype(format_byteorder(format), format_kind(format), bytesize, host)

\* The codec at rest on a host.
NoDType == DType(FALSE, "", 0, "")
CodecIdle(host) ==
    [host |-> host, pc |-> "idle", dtype |-> NoDType, format |-> 0, err |-> NoError,
     decoded |-> NoDType]

\* sys.byteorder.
Hosts == {"little", "big"}

\* The dtypes np.dtype(format) yields on a host, line 25: the integers and
\* floats of every size in the host's order and in the other (one-byte types
\* have no order), and of what is no sample format a bool, complex numbers,
\* byte and unicode strings, a time, an object reference, a void of 0, 8 and
\* 32 bytes, and structured types.
OtherChar(host) == IF host = "little" THEN ">" ELSE "<"
DTypes(host) ==
    {dt \in [fields : {FALSE}, kind : {"u", "i", "f"}, itemsize : {1, 2, 4, 8, 16},
             byteorder : {"|", "=", OtherChar(host)}] :
        /\ dt.itemsize \in NumpySizes(dt.kind)
        /\ dt.byteorder = "|" <=> dt.itemsize = 1}
    \cup {DType(FALSE, "b", 1, "|"), DType(FALSE, "c", 8, "="),
          DType(FALSE, "c", 16, OtherChar(host)), DType(FALSE, "S", 3, "|"),
          DType(FALSE, "U", 4, "="), DType(FALSE, "M", 8, "="), DType(FALSE, "O", 8, "|"),
          DType(FALSE, "V", 0, "|"), DType(FALSE, "V", 8, "|"), DType(FALSE, "V", 32, "|"),
          DType(TRUE, "V", 4, "|"), DType(TRUE, "V", 8, "|")}

\* The bitfields handed to _dtype_from_format: a width, of which 12 is no
\* multiple of 8 and 248 a multiple no type has, and the three flags in every
\* combination.
Widths == {8, 12, 16, 32, 64, 128, 248}
Formats ==
    {w + SDL_AUDIO_MASK_DATATYPE * f + SDL_AUDIO_MASK_ENDIAN * e + SDL_AUDIO_MASK_SIGNED * g :
        w \in Widths, f \in {0, 1}, e \in {0, 1}, g \in {0, 1}}

\* _get_format(dt)
Codec_get_format(dt) ==
    /\ codec.pc = "idle"
    /\ LET r == get_format(dt, codec.host)
       IN codec' = [codec EXCEPT !.pc = IF r.err = NoError THEN "encoded" ELSE "raised",
                                 !.dtype = dt, !.format = r.value, !.err = r.err]
    /\ UNCHANGED audioVars

\* _dtype_from_format(_get_format(dt))
Codec_dtype_from_get_format ==
    /\ codec.pc = "encoded"
    /\ LET r == dtype_from_format(codec.format, codec.host)
       IN codec' = [codec EXCEPT !.pc = "roundtrip", !.decoded = r.value, !.err = r.err]
    /\ UNCHANGED audioVars

\* _dtype_from_format(format)
Codec_dtype_from_format(format) ==
    /\ codec.pc = "idle"
    /\ LET r == dtype_from_format(format, codec.host)
       IN codec' = [codec EXCEPT !.pc = IF r.err = NoError THEN "decoded" ELSE "raised",
                                 !.format = format, !.decoded = r.value, !.err = r.err]
    /\ UNCHANGED audioVars

\* ------------------------------------------------------------ native layer
\* SDL_OpenAudioDevice(name, capture, desired, obtained, allowed_changes):
\* on success the device is open, paused, and keeps desired.userdata for its
\* callbacks; on failure it returns 0 and sets the error string.
SDL_OpenAudioDevice(nat, desired, id) ==
    IF id # 0
    THEN [nat EXCEPT !.open = TRUE, !.paused = TRUE, !.userdata = desired.userdata]
    ELSE [nat EXCEPT !.error = "open failed"]

\* line 84: ffi.new("SDL_AudioSpec*"), zero-initialised.
ZeroSpec == [freq |-> 0, format |-> 0, channels |-> 0, silence |-> 0, samples |-> 0, size |-> 0]

\* What a successful open writes into *obtained, for a frame batch size b and a
\* silence value sil: the request granted or changed. With one frame per batch
\* the frequency is 48000 and there is one channel, else both are as requested;
\* a silence value other than 0 comes with an unsigned 8-bit format (AUDIO_U8,
\* 0x0008), 0 with the requested format.
SDL_Obtained(desired, b, sil) ==
    LET format == IF sil = 0 THEN desired.format ELSE 8
        channels == IF b = 1 THEN 1 ELSE desired.channels
    IN [freq |-> IF b = 1 THEN 48000 ELSE desired.freq,
        format |-> format,
        channels |-> channels,
        silence |-> sil,
        samples |-> b,
        size |-> b * channels * (BitAnd(format, SDL_AUDIO_MASK_BITSIZE) \div 8)]

\* SDL_PauseAudioDevice(id, flag): nothing for an id that is not an open device.
SDL_PauseAudioDevice(nat, id, flag) ==
    IF nat.open /\ id = DevId THEN [nat EXCEPT !.paused = flag] ELSE nat

\* SDL_CloseAudioDevice(id): the call is recorded; the device, if id names it,
\* stops producing callbacks.
SDL_CloseAudioDevice(nat, id) ==
    [nat EXCEPT !.closes = Append(@, id),
                !.open = IF id = DevId THEN FALSE ELSE @]

\* esdl.sys._get_error(): the native layer's error string.
get_error(nat) == nat.error

\* ------------------------------------------------------------- AudioDevice
\* The application thread is not inside a call it made into the bridge.
AppFree == cb_pc = "idle" \/ cb_src = "driver"

\* A native call that closes the device waits for the driver's callback.
DriverQuiet == cb_pc = "idle" \/ cb_src # "driver"

\* lines 65-68: the parameters of the constructor, left at their defaults.
DefaultFrequency == 44100
DefaultFormat == DType(FALSE, "f", 4, "=")
DefaultChannels == 2
DefaultSamples == 4096

\* sys.byteorder of the host the device is opened on.
sys_byteorder == "little"

\* lines 73-83: the open request; userdata is the handle of line 72.
\* (variant: the open request carries no userdata)
DesiredSpecNullUserdata(h) ==
    [freq |-> DefaultFrequency,
     format |-> get_format(DefaultFormat, sys_byteorder).value,
     channels |-> DefaultChannels,
     samples |-> DefaultSamples,
     callback |-> "_sdl_audio_callback",
     userdata |-> "null"]
DesiredSpec(h) ==
    [freq |-> DefaultFrequency,
     format |-> get_format(DefaultFormat, sys_byteorder).value,
     channels |-> DefaultChannels,
     samples |-> DefaultSamples,
     callback |-> "_sdl_audio_callback",
     userdata |-> h]

\* The attributes of a device whose constructor has not assigned them.
NoAttributes ==
    [set |-> FALSE, frequency |-> 0, format |-> DType(FALSE, "", 0, ""), channels |-> 0,
     silence |-> 0, samples |-> 1, buffer_size |-> 0]

\* lines 93-98: the attributes, from what the native layer obtained (a format
\* of the native layer has a width numpy has a type for).
\* (variant: the frequency is the requested one)
DeviceAttributesRequestedFrequency(desired, got) ==
    [set |-> TRUE,
     frequency |-> desired.freq,
     format |-> dtype_from_format(got.format, sys_byteorder).value,
     channels |-> got.channels,
     silence |-> got.silence,
     samples |-> got.samples,
     buffer_size |-> got.size]
DeviceAttributes(desired, got) ==
    [set |-> TRUE,
     frequency |-> got.freq,
     format |-> dtype_from_format(got.format, sys_byteorder).value,
     channels |-> got.channels,
     silence |-> got.silence,
     samples |-> got.samples,
     buffer_size |-> got.size]

\* line 92: assert self.device_id != 0, esdl.sys._get_error()
\* (variant: no assert)
OpenCheckSilent(id, nat) == NoError
OpenCheck(id, nat) ==
    IF id # 0 THEN NoError ELSE Error("AssertionError", get_error(nat))

\* lines 99-101: the callback installed by the constructor.
InitialCallback(cbarg) == IF cbarg = "none" THEN "default" ELSE cbarg

\* AudioDevice.__init__, lines 72-101. id is what the native open returns,
\* b and sil the frame batch size and silence value it obtains.
AudioDevice_init(id, b, sil, cbarg) ==
    /\ UNCHANGED codec
    /\ dev = "none" /\ main_pc = "idle" /\ AppFree /\ ~crashed
    /\ handle' = "live"
    /\ native' = [SDL_OpenAudioDevice(native, DesiredSpec("h"), id) EXCEPT
                    !.spec = IF id # 0 THEN SDL_Obtained(DesiredSpec("h"), b, sil) ELSE @]
    /\ device_id' = id
    /\ main_err' = OpenCheck(id, native')
    /\ IF main_err' # NoError
       THEN /\ dev' = "failed"
            /\ UNCHANGED <<obtained, callback, first_callback>>
       ELSE /\ dev' = "alive"
            /\ obtained' = DeviceAttributes(DesiredSpec("h"), native'.spec)
            /\ callback' = InitialCallback(cbarg)
            /\ first_callback' = InitialCallback(cbarg)
    /\ UNCHANGED <<mixVars, main_pc, playVars, histVars, cbVars, crashed>>

\* line 113: if not self.device_id: return
\* (variant: no early return)
close_returns_early_never(id) == FALSE
close_returns_early(id) == id = 0

\* line 116: self.device_id = 0
\* (variant: the id is kept)
close_new_id_kept(id) == id
close_new_id(id) == 0

\* AudioDevice.close, lines 112-116, as a relation on device_id and native.
close_body ==
    IF close_returns_early(device_id)
    THEN UNCHANGED <<device_id, native>>
    ELSE /\ native' = SDL_CloseAudioDevice(native, device_id)
         /\ device_id' = close_new_id(device_id)

AudioDevice_close ==
    /\ UNCHANGED codec
    /\ dev = "alive" /\ main_pc = "idle" /\ AppFree /\ ~crashed
    /\ DriverQuiet
    /\ close_body
    /\ reclosed' = (reclosed \/ Len(native.closes) > 0)
    /\ UNCHANGED pause_after_close
    /\ main_err' = NoError
    /\ UNCHANGED <<dev, handle, obtained, callback, first_callback, mixVars, main_pc,
                   playVars, cbVars, crashed>>

\* AudioDevice.__del__, lines 109-110: close(), then the object and the handle
\* it owns are gone. The object is collected only when nothing refers to it:
\* no mixer holds it as its device and no bridge invocation is using it.
AudioDevice_del ==
    /\ UNCHANGED codec
    /\ dev \in {"alive", "failed"} /\ main_pc = "idle" /\ ~crashed
    /\ cb_pc = "idle"
    /\ mixer_device # "dev"
    /\ close_body
    /\ reclosed' = (reclosed \/ Len(native.closes) > 0)
    /\ UNCHANGED pause_after_close
    /\ dev' = "destroyed"
    /\ handle' = "freed"
    /\ main_err' = NoError
    /\ UNCHANGED <<obtained, callback, first_callback, mixVars, main_pc, playVars,
                   cbVars, crashed>>

\* line 104: the flag pause() passes.
\* (variant: the flag of unpause())
pause_flag_false == FALSE
pause_flag == TRUE

\* line 107: the flag unpause() passes.
unpause_flag == FALSE

\* lines 103-107: pause() and unpause() look at nothing before the native
\* call, and the native call returns nothing: they raise nothing.
\* (variant: they refuse a closed device)
pause_raises_if_closed(id) == IF id = 0 THEN Error("AssertionError", "device_id") ELSE NoError
pause_raises(id) == NoError

\* AudioDevice.pause / unpause, lines 103-107.
AudioDevice_pause ==
    /\ UNCHANGED codec
    /\ dev = "alive" /\ main_pc = "idle" /\ AppFree /\ ~crashed
    /\ native' = SDL_PauseAudioDevice(native, device_id, pause_flag)
    /\ pause_after_close' = (pause_after_close \/ native.closes # <<>>)
    /\ main_err' = pause_raises(device_id)
    /\ UNCHANGED <<dev, handle, device_id, obtained, callback, first_callback, mixVars,
                   main_pc, playVars, reclosed, cbVars, crashed>>

AudioDevice_unpause ==
    /\ UNCHANGED codec
    /\ dev = "alive" /\ main_pc = "idle" /\ AppFree /\ ~crashed
    /\ native' = SDL_PauseAudioDevice(native, device_id, unpause_flag)
    /\ pause_after_close' = (pause_after_close \/ native.closes # <<>>)
    /\ main_err' = pause_raises(device_id)
    /\ UNCHANGED <<dev, handle, device_id, obtained, callback, first_callback, mixVars,
                   main_pc, playVars, reclosed, cbVars, crashed>>

\* device.callback = c, by the application (the attribute of line 101).
AudioDevice_set_callback(c) ==
    /\ UNCHANGED codec
    /\ dev = "alive" /\ main_pc = "idle" /\ AppFree /\ ~crashed
    /\ callback' = c
    /\ UNCHANGED first_callback
    /\ main_err' = NoError
    /\ UNCHANGED <<dev, handle, device_id, obtained, native, mixVars, main_pc,
                   playVars, histVars, cbVars, crashed>>

\* ------------------------------------------------------ Mixer / BasicMixer
\* Setting or reading an attribute a numpy.ndarray does not have.
ndarray_attribute_error(name) == Error("AttributeError", name)

\* BasicMixer.__init__ -> Mixer.__init__, line 125: self.device = device
Mixer_init_125 ==
    /\ UNCHANGED codec
    /\ dev = "alive" /\ mixer = "none" /\ main_pc = "idle" /\ AppFree /\ ~crashed
    /\ mixer' = "constructing"
    /\ mixer_device' = "dev"
    /\ main_pc' = "init126"
    /\ UNCHANGED <<devVars, play_buffers, pb_set, playVars, main_err,
                   histVars, cbVars, crashed>>

\* line 126: device.callback = self.on_stream
Mixer_init_126 ==
    /\ UNCHANGED codec
    /\ main_pc = "init126" /\ ~crashed
    /\ callback' = "on_stream"
    /\ UNCHANGED first_callback
    /\ main_pc' = "init127"
    /\ UNCHANGED <<dev, handle, device_id, obtained, native, mixVars, playVars,
                   main_err, histVars, cbVars, crashed>>

\* line 127: self.device.unpause(). self.device is read again here: a callback
\* that ran on_stream since line 126 has made it the stream (an ndarray), and
\* the constructor raises, leaving the mixer reachable only as the callback.
Mixer_init_127 ==
    /\ UNCHANGED codec
    /\ main_pc = "init127" /\ ~crashed
    /\ IF mixer_device = "dev"
       THEN /\ native' = SDL_PauseAudioDevice(native, device_id, FALSE)
            /\ main_pc' = "init136"
            /\ UNCHANGED <<mixer, main_err>>
       ELSE /\ main_err' = ndarray_attribute_error("unpause")
            /\ mixer' = "orphan"
            /\ main_pc' = "idle"
            /\ UNCHANGED native
    /\ UNCHANGED <<dev, handle, device_id, obtained, callback, first_callback,
                   mixer_device, play_buffers, pb_set, playVars, histVars, cbVars,
                   crashed>>

\* line 136: self.play_buffers = []
BasicMixer_init_136 ==
    /\ UNCHANGED codec
    /\ main_pc = "init136" /\ ~crashed
    /\ play_buffers' = <<>>
    /\ pb_set' = TRUE
    /\ mixer' = "ready"
    /\ main_pc' = "idle"
    /\ main_err' = NoError
    /\ UNCHANGED <<devVars, mixer_device, playVars, histVars, cbVars, crashed>>

\* line 140: assert array.size
\* (variant: no assert)
play_size_ok_always(array) == TRUE
play_size_ok(array) == Len(array) # 0

\* line 144: self.play_buffers.append(chunks)
\* (variant: the list is replaced by one holding the new sound alone)
play_append_overwrite(buffers, chunks) == <<chunks>>
play_append(buffers, chunks) == Append(buffers, chunks)

\* The application thread's operation ends, raising e (NoError: returning).
MainEnds(e) ==
    /\ main_pc' = "idle"
    /\ main_err' = e
    /\ play_array' = <<>>
    /\ play_chunks' = <<>>

\* BasicMixer.play, lines 139-142: self.device.format is read (an ndarray has
\* none), the sound is coerced, and an empty one is refused.
BasicMixer_play_139(sound) ==
    /\ UNCHANGED codec
    /\ mixer = "ready" /\ main_pc = "idle" /\ AppFree /\ ~crashed
    /\ Len(accepted) < MaxSounds
    /\ IF mixer_device # "dev"
       THEN MainEnds(ndarray_attribute_error("format"))
       ELSE IF ~play_size_ok(sound)
       THEN MainEnds(Error("AssertionError", "array.size"))
       ELSE /\ play_array' = sound
            /\ main_pc' = "play143"
            /\ UNCHANGED <<play_chunks, main_err>>
    /\ UNCHANGED <<devVars, mixVars, accepted, accept_phase, histVars, cbVars, crashed>>

\* line 143: the chunks; self.device.samples is read (an ndarray has none).
BasicMixer_play_143 ==
    /\ UNCHANGED codec
    /\ main_pc = "play143" /\ ~crashed
    /\ IF mixer_device # "dev"
       THEN MainEnds(ndarray_attribute_error("samples"))
       ELSE /\ play_chunks' = play_split(play_array, obtained.samples)
            /\ main_pc' = "play144"
            /\ UNCHANGED <<play_array, main_err>>
    /\ UNCHANGED <<devVars, mixVars, accepted, accept_phase, histVars, cbVars, crashed>>

\* Where on_stream stands: running, not yet run to an end, or run at least once.
OnStreamPhase ==
    IF cb_pc \in {"L125", "L126"} THEN "during"
    ELSE IF os_done = 0 THEN "before" ELSE "after"

\* line 144: the sound joins the in-flight collection.
BasicMixer_play_144 ==
    /\ UNCHANGED codec
    /\ main_pc = "play144" /\ ~crashed
    /\ play_buffers' = play_append(play_buffers, play_chunks)
    /\ accepted' = Append(accepted, play_array)
    /\ accept_phase' = OnStreamPhase
    /\ MainEnds(NoError)
    /\ UNCHANGED <<devVars, mixer, mixer_device, pb_set, histVars, cbVars, crashed>>

\* --------------------------------------------------------- callback bridge
\* The record kept of one invocation: what its buffer held on entry, the
\* callbacks it dispatched to, and the error that ended it.
NewInvocation(fill) == [fill |-> fill, calls |-> <<>>, err |-> NoError]

\* The token an invocation is entered with: the driver passes the userdata of
\* the open request, the application the handle of its device.
Token(src) == IF src = "driver" THEN native.userdata ELSE "h"

\* The buffer the caller passes: obtained.samples frames, all holding fill.
NewStream(fill) == [i \in 1..obtained.samples |-> fill]

\* The driver's thread calls the bridge with the userdata of the open request,
\* while the device is open and not paused.
sdl_audio_callback_driver(fill) ==
    /\ UNCHANGED codec
    /\ ~crashed /\ cb_pc = "idle" /\ os_done < MaxOnStream
    /\ native.open /\ ~native.paused
    /\ cb_pc' = "L158"
    /\ cb_src' = "driver"
    /\ stream' = NewStream(fill)
    /\ inv' = NewInvocation(fill)
    /\ UNCHANGED <<devVars, mixVars, main_pc, playVars, main_err,
                   histVars, os_done, crashed>>

\* The application calls lib._sdl_audio_callback itself with the token of its
\* device, whatever has become of the device since.
sdl_audio_callback_simulated(fill) ==
    /\ UNCHANGED codec
    /\ ~crashed /\ cb_pc = "idle" /\ os_done < MaxOnStream
    /\ main_pc = "idle"
    /\ dev \in {"alive", "destroyed"} /\ obtained.set
    /\ cb_pc' = "L158"
    /\ cb_src' = "simulated"
    /\ stream' = NewStream(fill)
    /\ inv' = NewInvocation(fill)
    /\ UNCHANGED <<devVars, mixVars, main_pc, playVars, main_err,
                   histVars, os_done, crashed>>

\* @ffi.def_extern(), line 155, with no onerror: an exception raised inside is
\* printed and the call returns to its native caller; it does not unwind into it.
\* (variant: the exception unwinds into the native caller)
def_extern_unwinds_always(e) == TRUE
def_extern_unwinds(e) == FALSE

\* An exception e ends the invocation started through the bridge.
BridgeRaises(e) ==
    /\ inv' = [inv EXCEPT !.err = e]
    /\ cb_pc' = "idle"
    /\ crashed' = def_extern_unwinds(e)

\* line 158: ffi.from_handle(userdata)(). A NULL token is refused; a live handle
\* yields its weak reference, which yields the device while the handle lives
\* (the device owns the handle); a freed handle is a dangling pointer, and the
\* call then does anything: here, the process dies, or a dead reference is
\* found and line 159's assert fails.
from_handle_outcomes(token, h) ==
    IF token = "null" THEN {"RuntimeError"}
    ELSE IF h = "live" THEN {"device"}
    ELSE {"segfault", "AssertionError"}

\* lines 158-160: resolve the token, assert, wrap the buffer.
sdl_audio_callback_158 ==
    /\ UNCHANGED codec
    /\ ~crashed /\ cb_pc = "L158"
    /\ \E o \in from_handle_outcomes(Token(cb_src), handle) :
         CASE o = "device" ->
                /\ cb_pc' = "L161"
                /\ UNCHANGED <<inv, crashed>>
           [] o = "segfault" ->
                /\ crashed' = TRUE
                /\ cb_pc' = "idle"
                /\ inv' = [inv EXCEPT !.err = Error("segfault", "")]
           [] OTHER -> BridgeRaises(Error(o, ""))
    /\ UNCHANGED <<devVars, mixVars, main_pc, playVars, main_err,
                   histVars, cb_src, stream, os_done>>

\* line 161: device.callback is read, once, and called.
\* (variant: the callback of the constructor is called)
DispatchTargetAtOpen == first_callback
DispatchTarget == callback

\* What a callback of the application leaves in the buffer: its own mark in
\* the first frame.
CallbackMark(c) == IF c = "cbA" THEN 3 ELSE 4
UserWrite(s, c) == [s EXCEPT ![1] = CallbackMark(c)]

\* AudioDevice.__default_callback, lines 119-120: stream[...] = silence
\* (variant: stream[0] = silence)
default_callback_first_frame(s, silence) == [s EXCEPT ![1] = silence]
default_callback(s, silence) == Fill(s, silence)

\* line 161: dispatch. The default callback and a callback of the application
\* run to their end here (the latter may raise after writing);
\* BasicMixer.on_stream is entered and runs in its own steps.
sdl_audio_callback_161 ==
    /\ UNCHANGED codec
    /\ ~crashed /\ cb_pc = "L161"
    /\ LET c == DispatchTarget
           called == [inv EXCEPT !.calls = Append(@, c)]
       IN CASE c = "default" ->
                 /\ stream' = default_callback(stream, obtained.silence)
                 /\ inv' = called
                 /\ cb_pc' = "idle"
                 /\ UNCHANGED crashed
            [] c = "on_stream" ->
                 /\ inv' = called
                 /\ cb_pc' = "L125"
                 /\ UNCHANGED <<stream, crashed>>
            [] OTHER ->
                 /\ stream' = UserWrite(stream, c)
                 /\ \E raises \in BOOLEAN :
                      IF raises
                      THEN /\ inv' = [called EXCEPT !.err = Error("UserError", c)]
                           /\ cb_pc' = "idle"
                           /\ crashed' = def_extern_unwinds(Error("UserError", c))
                      ELSE /\ inv' = called
                           /\ cb_pc' = "idle"
                           /\ UNCHANGED crashed
    /\ UNCHANGED <<devVars, mixVars, main_pc, playVars, main_err,
                   histVars, cb_src, os_done>>

\* BasicMixer.on_stream, line 147: super().__init__(stream) is
\* Mixer.__init__(self, stream); its line 125 makes the stream the mixer's device.
BasicMixer_on_stream_125 ==
    /\ UNCHANGED codec
    /\ ~crashed /\ cb_pc = "L125"
    /\ mixer_device' = "stream"
    /\ cb_pc' = "L126"
    /\ UNCHANGED <<devVars, mixer, play_buffers, pb_set, main_pc, playVars,
                   main_err, histVars, cb_src, stream, inv, os_done, crashed>>

\* Mixer.__init__ line 126 on the stream: stream.callback = self.on_stream. The
\* stream is a numpy.ndarray, which takes no new attribute: AttributeError ends
\* on_stream before its line 148, and the bridge with it.
BasicMixer_on_stream_126 ==
    /\ UNCHANGED codec
    /\ ~crashed /\ cb_pc = "L126"
    /\ os_done' = os_done + 1
    /\ BridgeRaises(ndarray_attribute_error("callback"))
    /\ UNCHANGED <<devVars, mixVars, main_pc, playVars, main_err, histVars, cb_src,
                   stream>>

\* ------------------------------------------------------------ specification
AudioInit ==
    /\ dev = "none"
    /\ handle = "none"
    /\ device_id = 0
    /\ obtained = NoAttributes
    /\ callback = "unset"
    /\ first_callback = "unset"
    /\ native = [open |-> FALSE, paused |-> TRUE, userdata |-> "null",
                 spec |-> ZeroSpec, closes |-> <<>>, error |-> ""]
    /\ mixer = "none"
    /\ mixer_device = "unset"
    /\ play_buffers = <<>>
    /\ pb_set = FALSE
    /\ main_pc = "idle"
    /\ play_array = <<>>
    /\ play_chunks = <<>>
    /\ main_err = NoError
    /\ reclosed = FALSE
    /\ pause_after_close = FALSE
    /\ cb_pc = "idle"
    /\ cb_src = "none"
    /\ stream = <<>>
    /\ inv = NewInvocation(0)
    /\ os_done = 0
    /\ accepted = <<>>
    /\ accept_phase = "none"
    /\ crashed = FALSE

Init ==
    /\ AudioInit
    /\ codec = CodecIdle(sys_byteorder)

Next ==
    \/ \E id \in {0, DevId}, b \in SampleCounts, sil \in Silences,
          cbarg \in CallbackArgs : AudioDevice_init(id, b, sil, cbarg)
    \/ AudioDevice_close
    \/ AudioDevice_del
    \/ AudioDevice_pause
    \/ AudioDevice_unpause
    \/ \E c \in NewCallbacks : AudioDevice_set_callback(c)
    \/ Mixer_init_125
    \/ Mixer_init_126
    \/ Mixer_init_127
    \/ BasicMixer_init_136
    \/ \E sound \in Sounds : BasicMixer_play_139(sound)
    \/ BasicMixer_play_143
    \/ BasicMixer_play_144
    \/ \E fill \in StreamFill : sdl_audio_callback_driver(fill)
    \/ \E fill \in StreamFill : sdl_audio_callback_simulated(fill)
    \/ sdl_audio_callback_158
    \/ sdl_audio_callback_161
    \/ BasicMixer_on_stream_125
    \/ BasicMixer_on_stream_126

Spec == Init /\ [][Next]_vars

\* The codec alone, on either host, applied to every dtype and every bitfield.
CodecInit ==
    /\ AudioInit
    /\ \E host \in Hosts : codec = CodecIdle(host)

CodecNext ==
    \/ \E dt \in DTypes(codec.host) : Codec_get_format(dt)
    \/ Codec_dtype_from_get_format
    \/ \E format \in Formats : Codec_dtype_from_format(format)

CodecSpec == CodecInit /\ [][CodecNext]_vars

\* ------------------------------------------------------------------ claims
\* What the k-th on_stream call is to take from sound s at batch size b: its
\* k-th piece, or nothing once the sound is exhausted.
NextChunk(s, b, k) == IF k <= NumPieces(Len(s), b) THEN Piece(s, b, k) ELSE <<>>

\* Frame i of a chunk, nothing beyond its end.
FrameOf(chunk, i) == IF i <= Len(chunk) THEN chunk[i] ELSE 0

\* The buffer after the k-th call: base plus, frame by frame, the k-th chunk of
\* every sound.
MixedOut(base, sounds, b, k) ==
    [i \in 1..b |-> base + SumSeq([j \in 1..Len(sounds) |->
                                     FrameOf(NextChunk(sounds[j], b, k), i)])]

\* The in-flight collection after k calls: the sounds with chunks left, each
\* with its first k chunks gone.
Remaining(sounds, b, k) ==
    LET left == SelectSeq(sounds, LAMBDA s : NumPieces(Len(s), b) > k)
    IN [j \in 1..Len(left) |->
          SubSeq(play_split(left[j], b), 1, NumPieces(Len(left[j]), b) - k)]

\* The last invocation has ended, and it was a call of on_stream.
OnStreamJustEnded == cb_pc = "idle" /\ os_done >= 1 /\ inv.calls = <<"on_stream">>

\* C1: after play(s) of one sound on a device whose silence value is 0, the
\* k-th following on_stream call on a zeroed buffer leaves the k-th batch of
\* s in the leading frames and silence in the rest, and once the batches are
\* used up the sound is out of the in-flight collection and the buffer is
\* all silence.
C1_SingleSoundMixed ==
    (/\ OnStreamJustEnded
     /\ Len(accepted) = 1 /\ accept_phase = "before"
     /\ obtained.silence = 0 /\ inv.fill = 0)
    => /\ stream = MixedOut(0, accepted, obtained.samples, os_done)
       /\ play_buffers = Remaining(accepted, obtained.samples, os_done)

\* C2: one on_stream call pops the next pending chunk of every in-flight sound
\* and adds it into the leading frames of the buffer: every output frame is
\* the silence value plus the sum of the sounds' chunks at that frame.
C2_OverlapMixed ==
    (/\ OnStreamJustEnded
     /\ Len(accepted) >= 1 /\ accept_phase = "before")
    => /\ stream = MixedOut(obtained.silence, accepted, obtained.samples, os_done)
       /\ play_buffers = Remaining(accepted, obtained.samples, os_done)

C4_CallbackAfterCloseInert ==
    [][(cb_src = "simulated" /\ cb_pc # "idle" /\ (dev = "destroyed" \/ device_id = 0))
       => (inv'.calls = <<>> /\ stream' = stream /\ inv'.err = NoError /\ ~crashed')]_vars

\* C5: every call of close(), the destructor's included, raises nothing and
\* leaves device_id = 0.
C5_IdempotentClose ==
    [][(AudioDevice_close \/ AudioDevice_del)
       => (device_id' = 0 /\ main_err' = NoError)]_vars

\* close() has been called again on a device it had closed: nothing raised,
\* device_id still 0, one native close.
C5_Witness ==
    /\ reclosed /\ device_id = 0 /\ main_err = NoError /\ Len(native.closes) = 1

\* The exceptions Python code raises inside the bridge.
PythonErrors == {"AttributeError", "AssertionError", "RuntimeError", "UserError"}

\* C6: when the callback, or the bridge's resolution of the token, raises, the
\* invocation ends there and returns to its native caller: the process lives
\* and the buffer is what it was when the error was raised (for on_stream and
\* for the resolution: untouched).
C6_ErrorsContained ==
    [][(inv'.err # inv.err /\ inv'.err.type \in PythonErrors)
       => /\ ~crashed'
          /\ cb_pc' = "idle"
          /\ (inv'.err.type # "UserError" => stream' = stream)]_vars

\* on_stream has raised in an earlier invocation, and a later invocation has
\* dispatched to a callback.
C6_Witness ==
    /\ os_done >= 1 /\ inv.calls # <<>> /\ inv.err = NoError /\ ~crashed
    /\ cb_pc = "idle"

\* C7: play() of a zero-length sound raises, and the in-flight collection is
\* after the call what it was before.
C7_EmptyRejected ==
    [][BasicMixer_play_139(<<>>)
       => /\ main_err' # NoError
          /\ main_pc' = "idle"
          /\ play_buffers' = play_buffers
          /\ accepted' = accepted]_vars

\* play() has refused an empty sound while a sound was in flight, which is
\* still there.
C7_Witness ==
    /\ main_err = Error("AssertionError", "array.size")
    /\ Len(play_buffers) = 1 /\ Len(accepted) = 1

\* C8: a bridge invocation dispatches once, to the callback installed at the
\* moment it reads device.callback: what it has dispatched to changes only in
\* its dispatch step (and is reset when the next invocation starts), and
\* becomes exactly the installed callback there.
C8_DispatchesToInstalled ==
    [][/\ (cb_pc = "L161" /\ cb_pc' # "L161") => inv'.calls = <<callback>>
       /\ (cb_pc # "L161" /\ cb_pc' # "L158") => inv'.calls = inv.calls]_vars

\* The callback has been replaced and an invocation has dispatched to the new
\* one, not to the one the constructor installed.
C8_Witness ==
    /\ inv.calls = <<"cbB">> /\ first_callback # "cbB" /\ callback = "cbB"

\* C9: the native layer holds the device's handle as userdata from the open
\* request on, so whenever the device is open, and during every callback of
\* the driver, the token is the live handle of the live device.
C9_TokenRegistered ==
    /\ native.open => (native.userdata = "h" /\ handle = "live" /\ dev = "alive")
    /\ (cb_src = "driver" /\ cb_pc # "idle")
         => (Token("driver") = "h" /\ handle = "live" /\ dev = "alive")

\* A callback of the driver has resolved its token to the device.
C9_Witness ==
    /\ cb_src = "driver" /\ cb_pc = "L161" /\ dev = "alive"

\* C10: a native open that returns 0 makes the constructor raise the native
\* error string and yields no device object; the object it leaves behind is
\* never closed natively, by its destructor or otherwise.
C10_OpenFailure ==
    /\ (dev = "alive" /\ device_id = 0) => native.closes # <<>>
    /\ dev = "failed"
         => (main_err = Error("AssertionError", "open failed") /\ device_id = 0)
    /\ ~obtained.set => (native.closes = <<>> /\ ~native.open)

\* The destructor has run on the object of a failed open: no native close.
C10_Witness ==
    /\ dev = "destroyed" /\ ~obtained.set /\ native.closes = <<>>
    /\ native.error = "open failed"

\* C11: the attributes of an opened device are the values the native layer
\* obtained (the format decoded), whatever was requested, and a native open
\* that succeeded always yields the device: obtaining other values than the
\* requested ones is no error.
C11_OpenNegotiation ==
    /\ obtained.set =>
         /\ obtained.frequency = native.spec.freq
         /\ obtained.format = dtype_from_format(native.spec.format, sys_byteorder).value
         /\ dtype_from_format(native.spec.format, sys_byteorder).err = NoError
         /\ obtained.channels = native.spec.channels
         /\ obtained.silence = native.spec.silence
         /\ obtained.samples = native.spec.samples
         /\ obtained.buffer_size = native.spec.size
    /\ native.spec # ZeroSpec => (obtained.set /\ dev \in {"alive", "destroyed"})

\* A device is open whose frequency, format, channels and frame batch size are
\* all other than the requested ones.
C11_Witness ==
    /\ dev = "alive" /\ native.open
    /\ obtained.frequency = 48000 /\ obtained.frequency # DefaultFrequency
    /\ obtained.format = DType(FALSE, "u", 1, "|") /\ obtained.format # DefaultFormat
    /\ obtained.channels = 1 /\ obtained.channels # DefaultChannels
    /\ obtained.samples # DefaultSamples
    /\ obtained.buffer_size = 1

\* C12: pause() and unpause() on an open device raise nothing and change only
\* the native paused state, to paused and to playing: the in-flight
\* collection, the attributes, the callback and the device id stay.
C12_PauseFrame ==
    [][((AudioDevice_pause \/ AudioDevice_unpause) /\ native.open)
       => /\ main_err' = NoError /\ ~crashed'
          /\ play_buffers' = play_buffers /\ pb_set' = pb_set
          /\ obtained' = obtained /\ callback' = callback /\ device_id' = device_id
          /\ \E flag \in BOOLEAN : native' = [native EXCEPT !.paused = flag]
          /\ AudioDevice_pause => native'.paused
          /\ (AudioDevice_unpause /\ ~AudioDevice_pause) => ~native'.paused]_vars

\* The device has been paused again after the mixer started it, with a sound
\* in flight.
C12_Witness ==
    /\ native.open /\ native.paused /\ mixer = "ready"
    /\ Len(play_buffers) >= 1 /\ main_err = NoError /\ main_pc = "idle"

\* C13: close() leaves device_id = 0, and pause() and unpause() on the closed
\* device raise nothing and change nothing: the native layer, which holds no
\* open device then, stays as it is.
C13_ClosedPauseNoop ==
    [][/\ AudioDevice_close => device_id' = 0
       /\ ((AudioDevice_pause \/ AudioDevice_unpause) /\ native.closes # <<>>)
            => /\ device_id = 0 /\ device_id' = 0
               /\ native' = native /\ ~native'.open
               /\ main_err' = NoError /\ ~crashed'
               /\ play_buffers' = play_buffers /\ obtained' = obtained
               /\ callback' = callback]_vars

\* pause() or unpause() has been called on the closed device: it is closed still.
C13_Witness ==
    /\ pause_after_close /\ dev = "alive" /\ device_id = 0 /\ ~native.open
    /\ main_err = NoError /\ ~crashed

\* C14: while the callback of a device opened without one is the default, a
\* callback of the driver dispatches to it, and it leaves the device's silence
\* value in every frame of the buffer, whatever the buffer held.
C14_DefaultFillsSilence ==
    [][(sdl_audio_callback_161 /\ cb_src = "driver" /\ callback = "default")
       => /\ first_callback = "default"
          /\ inv'.calls = <<"default">>
          /\ stream' = [i \in 1..obtained.samples |-> obtained.silence]
          /\ obtained.silence = native.spec.silence
          /\ inv'.err = NoError /\ cb_pc' = "idle" /\ ~crashed']_vars

\* A callback of the driver has ended in the default callback: a buffer of
\* several stale frames holds the silence value, other than 0, in all of them.
C14_Witness ==
    /\ cb_src = "driver" /\ cb_pc = "idle" /\ inv.calls = <<"default">>
    /\ inv.fill # obtained.silence /\ obtained.silence # 0
    /\ Len(stream) > 1 /\ \A i \in 1..Len(stream) : stream[i] = obtained.silence

\* C15: a dtype _get_format accepts comes back from _dtype_from_format of its
\* bitfield, on either host; and what _get_format accepts is every integer
\* and float dtype that is not structured, and no other dtype.
C15_RoundTrip ==
    /\ codec.pc = "roundtrip"
         => (codec.err = NoError /\ codec.decoded = codec.dtype)
    /\ (codec.dtype # NoDType /\ codec.pc # "idle")
         => ((codec.pc = "raised")
              <=> (codec.dtype.fields \/ codec.dtype.kind \notin {"u", "i", "f"}
                    \/ codec.dtype.itemsize = 0 \/ codec.dtype.itemsize > 31))

\* A float in the host's order on a big-endian host has come back.
C15_Witness ==
    /\ codec.pc = "roundtrip" /\ codec.host = "big"
    /\ codec.dtype = DType(FALSE, "f", 4, "=") /\ codec.decoded = codec.dtype
    /\ codec.format = 32 + 256 + 4096 + 32768

\* The flags of a bitfield, by division: bit 8 (float) and bit 15 (signed).
FloatFlag(format) == (format \div 256) % 2 = 1
SignedFlag(format) == (format \div 32768) % 2 = 1

\* C16: a bitfield with the float flag decodes to a float, the signed flag
\* set or not, whenever its width is one a float has; without the float flag
\* the kind is signed integer with the signed flag and unsigned without.
C16_DecodePriority ==
    /\ codec.pc = "decoded"
         => codec.decoded.kind = (IF FloatFlag(codec.format) THEN "f"
                                  ELSE IF SignedFlag(codec.format) THEN "i" ELSE "u")
    /\ (codec.pc \in {"decoded", "raised"} /\ codec.dtype = NoDType
         /\ FloatFlag(codec.format) /\ SignedFlag(codec.format)
         /\ codec.format % 256 \in {16, 32, 64, 128})
         => (codec.pc = "decoded" /\ codec.decoded.kind = "f")

\* A bitfield with both flags set has been decoded, to a float.
C16_Witness ==
    /\ codec.pc = "decoded" /\ FloatFlag(codec.format) /\ SignedFlag(codec.format)
    /\ codec.decoded = DType(FALSE, "f", 4, IF codec.host = "little" THEN "=" ELSE "<")

\* C17: the native close is called with the id the device was opened with and
\* with nothing else, at most once; it has been called once the device is
\* closed or destroyed, and not before.
C17_NativeCloseOnce ==
    /\ Len(native.closes) <= 1
    /\ \A i \in 1..Len(native.closes) : native.closes[i] = DevId /\ native.closes[i] # 0
    /\ obtained.set =>
         /\ (dev = "destroyed" \/ device_id = 0) <=> native.closes = <<DevId>>
         /\ device_id # 0 <=> native.open
    /\ ~obtained.set => native.closes = <<>>

\* The device was closed, closed again and then destroyed: one native close.
C17_Witness ==
    /\ reclosed /\ dev = "destroyed" /\ native.closes = <<DevId>> /\ ~native.open

\* C18: the mixer's device is the AudioDevice it was constructed with, and
\* the steps of on_stream leave the device's callback and the mixer's device
\* as they were.
C18_OnStreamKeepsDevice ==
    [][(BasicMixer_on_stream_125 \/ BasicMixer_on_stream_126)
       => /\ mixer_device' = mixer_device /\ mixer_device' = "dev"
          /\ callback' = callback]_vars

\* C19: every sound of the in-flight collection has a chunk pending, and
\* between operations the collection holds no sound whose chunks the
\* on_stream calls since its play() have used up.
C19_EntriesPending ==
    /\ \A j \in 1..Len(play_buffers) : play_buffers[j] # <<>>
    /\ (cb_pc = "idle" /\ main_pc = "idle" /\ accept_phase = "before")
         => Len(play_buffers) =
              Cardinality({j \in 1..Len(accepted) :
                             NumPieces(Len(accepted[j]), obtained.samples) > os_done})

\* C20: while a callback of the driver is in BasicMixer.on_stream, line 136 has
\* run: the mixer has its in-flight collection.
C20_ConstructionSafe ==
    (cb_src = "driver" /\ cb_pc \in {"L125", "L126"}) => pb_set

====
